---- MODULE Spec2Model ----
(***************************************************************************)
(* rundeckrun: the blocking job-run helper (Rundeck.job_run_and_block),    *)
(* the response envelope (RundeckResponse, memoize) and the API version    *)
(* checks (RundeckApiTolerant), modelled from src/rundeck.                 *)
(***************************************************************************)
EXTENDS Integers, Sequences, FiniteSets, TLC

\* ------------------------------------------------------------------ bounds
MaxTimeout == 4
MaxInterval == 2
MaxExtra == 1
NumAddrs == 2
NumRespAddrs == 1
MaxCount == 4

\* ------------------------------------------------------- program constants
RUNDECK_API_VERSION == 11
JOB_RUN_TIMEOUT == 60
JOB_RUN_INTERVAL == 3

Status == {"running", "succeeded", "failed", "aborted", "skipped", "pending"}

EXECUTION_COMPLETED_NoAborted == {"failed", "succeeded"}

EXECUTION_COMPLETED_WithSkipped == {"failed", "succeeded", "aborted", "skipped"}

EXECUTION_COMPLETED == {"failed", "succeeded", "aborted"}

\* ------------------------------------------------------------- the backend
\* What the body of an execution-kind reply holds: a well-formed execution
\* element with one of the statuses (named by the status), a reply without
\* the <executions> container, or a container with count="0".
NoContainer == "no_executions"
EmptyContainer == "empty_executions"
Docs == Status \cup {NoContainer, EmptyContainer}
HttpFailure == "raise"

\* Object addresses.  Fresh stands for an address no response object has had
\* before; the tracked addresses are the ones the allocator hands out again.
Fresh == 0
Addrs == 1..NumAddrs
RespAddrs == 1..NumRespAddrs
NoEntry == "NoEntry"
NoDoc == "NoDoc"
NoResp == [addr |-> Fresh, doc |-> NoDoc, id |-> "none"]
ExecIds == {"282", "283"}
Nowhere == -1
NoResponse == [addr |-> Nowhere, doc |-> NoDoc]

VARIABLES
    pc,             \* position in job_run_and_block
    timeout,        \* kwargs.pop('timeout', ...)
    interval,       \* kwargs.pop('interval', ...)
    duration,       \* elapsed seconds as last computed by the loop
    execution,      \* the local `execution`: the response last assigned
    exec_status,    \* the local `exec_status`, "unbound" until assigned
    raised,         \* the exception that left job_run_and_block, or "none"
    as_dict_cache,  \* memoize's cache of as_dict, keyed by object address
    runResp,        \* history: the response job_run returned
    lastResp,       \* history: the response the latest HTTP call returned
    nrun,           \* history: calls of job_run
    nfetch,         \* history: calls of execution(exec_id)
    nsleep,         \* history: calls of time.sleep
    lastEvt,        \* history: the latest of "run", "fetch", "sleep"
    lastRead,       \* history: outcome of the latest read of as_dict['status']
    lead,           \* history: leading fetches the backend answered non-terminal
    exec_id,        \* the local `exec_id`, "unbound" until assigned
    fetch_id,       \* history: the id the latest status fetch asked for
    pattern,        \* history: "lead", "term" (lead non-terminal, then terminal) or "other"
    api_version,    \* connection.api_version
    api_call,       \* the RundeckApi method called last and its keywords
    api_result,     \* how that call ended
    api_requests,   \* the HTTP requests that call issued, in order
    response,       \* the RundeckResponse at hand
    success_cache,  \* memoize's cache of success, keyed by object address
    message_cache,  \* memoize's cache of message, keyed by object address
    rfe,            \* the latest call of raise_for_error and its outcome
    call_out,       \* the latest call of _exec on the response and its outcome
    got,            \* the latest read of a property of the response: what the
                    \* caller got, and what the response's own document gives
    etree,          \* resp.etree of the response the transforms are applied to
    xf,             \* the latest application of a transform or helper
    prev,           \* the application before that one
    rnode,          \* the RundeckNode at hand
    frags,          \* the fragments serialize() has produced, in order
    nstage,         \* "none", "node" (a node is at hand), "xml" (its fragment
                    \* is), or "ParseError"
    conn,           \* the latest construction of a connection and how it ended
    client_call,    \* the latest call of a method of the client and how it ended
    as_dict_memo    \* memoize's cache of as_dict, as the client's calls see it

blockVars == <<pc, timeout, interval, duration, execution, exec_status, raised,
               as_dict_cache, runResp, lastResp, nrun, nfetch, nsleep, lastEvt,
               lastRead, lead, pattern, exec_id, fetch_id>>

apiVars == <<api_version, api_call, api_result, api_requests>>

respVars == <<response, success_cache, message_cache, rfe, got, call_out>>

xmlVars == <<etree, xf, prev>>

nodeVars == <<rnode, frags, nstage>>

connVars == <<conn>>

cliVars == <<client_call, as_dict_memo>>

vars == <<blockVars, apiVars, respVars, xmlVars, nodeVars, connVars, cliVars>>

Inc(n) == IF n < MaxCount THEN n + 1 ELSE n

\* ------------------------------------------------------------- transforms
\* transforms.executions: the list of execution records, here each record
\* reduced to its 'status' entry.
executions(doc) ==
    IF doc = NoContainer THEN [exc |-> "AttributeError", val |-> << >>]
    ELSE IF doc = EmptyContainer THEN [exc |-> "none", val |-> << >>]
    ELSE [exc |-> "none", val |-> <<doc>>]

\* transforms.execution: executions(resp)[0]
execution_xform(doc) ==
    LET all == executions(doc) IN
    IF all.exc # "none" THEN [exc |-> all.exc, val |-> NoEntry]
    ELSE IF Len(all.val) = 0 THEN [exc |-> "IndexError", val |-> NoEntry]
    ELSE [exc |-> "none", val |-> all.val[1]]

\* RundeckResponse.as_dict behind memoize: the key is str(args), the repr of
\* the response object, that is its address; a hit returns the stored value
\* whatever the response's own document is, a miss computes and stores, and
\* an exception stores nothing.
as_dict(resp, cache) ==
    IF resp.addr # Fresh /\ cache[resp.addr] # NoEntry
    THEN [exc |-> "none", val |-> cache[resp.addr], cache |-> cache]
    ELSE LET res == execution_xform(resp.doc) IN
         IF res.exc # "none"
         THEN [exc |-> res.exc, val |-> NoEntry, cache |-> cache]
         ELSE [exc |-> "none", val |-> res.val,
               cache |-> IF resp.addr = Fresh THEN cache
                         ELSE [cache EXCEPT ![resp.addr] = res.val]]

\* the test of the while loop
LoopCond_Inclusive(d, t) == d <= t

LoopCond(d, t) == d < t

\* ------------------------------------------------------------------- Init
NoCall == [op |-> "none", f1 |-> FALSE, f2 |-> FALSE, create |-> "None"]
NoHit == [hit |-> FALSE, val |-> "none"]
NoRfe == [outcome |-> "none", msg |-> "none", response |-> NoResponse, success |-> FALSE]
NoRead == [prop |-> "none"]
NoOut == [outcome |-> "none"]
NoCache == [a \in RespAddrs |-> NoHit]
NoTree == [kind |-> "none"]
NoXf == [op |-> "none"]
NoNode == [kind |-> "none"]

\* no document handed to a transform yet
XmlIdle ==
    /\ etree = NoTree
    /\ xf = NoXf
    /\ prev = NoXf
    /\ rnode = NoNode
    /\ frags = << >>
    /\ nstage = "none"

\* no connection constructed and no method of the client called yet
ClientIdle ==
    /\ conn = [outcome |-> "none"]
    /\ client_call = [op |-> "none"]
    /\ as_dict_memo = NoCache

\* a client on which no API method has been called yet
ApiIdle ==
    /\ api_version = RUNDECK_API_VERSION
    /\ api_call = NoCall
    /\ api_result = "none"
    /\ api_requests = << >>

\* no response received yet
RespIdle ==
    /\ response = NoResponse
    /\ success_cache = NoCache
    /\ message_cache = NoCache
    /\ rfe = NoRfe
    /\ got = NoRead
    /\ call_out = NoOut

\* job_run_and_block not entered; timeout and interval at their defaults
BlockIdle ==
    /\ pc = "start"
    /\ timeout = JOB_RUN_TIMEOUT
    /\ interval = JOB_RUN_INTERVAL
    /\ duration = 0
    /\ execution = NoResp
    /\ exec_status = "unbound"
    /\ raised = "none"
    /\ as_dict_cache = [a \in Addrs |-> NoEntry]
    /\ runResp = NoResp
    /\ lastResp = NoResp
    /\ nrun = 0
    /\ nfetch = 0
    /\ nsleep = 0
    /\ lastEvt = "none"
    /\ lastRead = "none"
    /\ lead = 0
    /\ pattern = "lead"
    /\ exec_id = "unbound"
    /\ fetch_id = "none"

Init ==
    /\ ApiIdle
    /\ RespIdle
    /\ ClientIdle
    /\ XmlIdle
    /\ pc = "start"
    /\ timeout \in 0..MaxTimeout
    /\ interval \in 1..MaxInterval
    /\ duration = 0
    /\ execution = NoResp
    /\ exec_status = "unbound"
    /\ raised = "none"
    /\ as_dict_cache = [a \in Addrs |-> NoEntry]
    /\ runResp = NoResp
    /\ lastResp = NoResp
    /\ nrun = 0
    /\ nfetch = 0
    /\ nsleep = 0
    /\ lastEvt = "none"
    /\ lastRead = "none"
    /\ lead = 0
    /\ pattern = "lead"
    /\ exec_id = "unbound"
    /\ fetch_id = "none"

\* ---------------------------------------------------------------- actions
\* execution = self.job_run(job_id, **kwargs); exec_id = execution.as_dict['id'];
\* start = time.time(); duration = 0
JobRun(a, out, id) ==
    /\ pc = "start"
    /\ nrun' = Inc(nrun)
    /\ lastEvt' = "run"
    /\ UNCHANGED <<timeout, interval, duration, exec_status, nfetch, nsleep,
                   lastRead, lead, pattern, fetch_id, apiVars, respVars, xmlVars, nodeVars, connVars, cliVars>>
    /\ IF out = HttpFailure
       THEN /\ pc' = "raised"
            /\ raised' = "HTTPError"
            /\ UNCHANGED <<execution, as_dict_cache, runResp, lastResp, exec_id>>
       ELSE LET resp == [addr |-> a, doc |-> out, id |-> id]
                m == as_dict(resp, as_dict_cache)
            IN /\ execution' = resp
               /\ runResp' = resp
               /\ lastResp' = resp
               /\ as_dict_cache' = m.cache
               /\ IF m.exc # "none"
                  THEN pc' = "raised" /\ raised' = m.exc /\ exec_id' = exec_id
                  ELSE pc' = "while" /\ raised' = "none" /\ exec_id' = resp.id

\* The history of what the backend answered to the status fetches.
NextPattern(out) ==
    IF pattern # "lead" THEN pattern
    ELSE IF out \in Status \ {"succeeded", "failed", "aborted"} THEN "lead"
    ELSE IF out \in {"succeeded", "failed", "aborted"} THEN "term"
    ELSE "other"

NextLead(out) ==
    IF pattern = "lead" /\ out \in Status \ {"succeeded", "failed", "aborted"}
    THEN Inc(lead) ELSE lead

\* where `continue` goes: the test of the while loop
ContinueTarget_Rerun == "start"

ContinueTarget == "while"

\* One pass of the loop body up to the sleep: the status fetch, the read of
\* as_dict['status'] under try/except AttributeError, and the test against
\* _EXECUTION_COMPLETED.
FetchExecution(a, out) ==
    /\ pc = "while"
    /\ LoopCond(duration, timeout)
    /\ a = Fresh \/ a # execution.addr
    /\ nfetch' = Inc(nfetch)
    /\ lastEvt' = "fetch"
    /\ lead' = NextLead(out)
    /\ pattern' = NextPattern(out)
    /\ fetch_id' = exec_id
    /\ UNCHANGED <<timeout, interval, duration, runResp, nrun, nsleep, exec_id,
                   apiVars, respVars, xmlVars, nodeVars, connVars, cliVars>>
    /\ IF out = HttpFailure
       THEN /\ pc' = "raised"
            /\ raised' = "HTTPError"
            /\ lastRead' = "none"
            /\ UNCHANGED <<execution, exec_status, as_dict_cache, lastResp>>
       ELSE LET resp == [addr |-> a, doc |-> out, id |-> exec_id]
                m == as_dict(resp, as_dict_cache)
            IN /\ execution' = resp
               /\ lastResp' = resp
               /\ as_dict_cache' = m.cache
               /\ IF m.exc = "none"
                  THEN /\ exec_status' = m.val
                       /\ lastRead' = "ok"
                       /\ raised' = "none"
                       /\ pc' = IF m.val \in EXECUTION_COMPLETED THEN "done" ELSE "sleep"
                  ELSE IF m.exc = "AttributeError"
                  THEN /\ lastRead' = "AttributeError"
                       /\ UNCHANGED exec_status
                       /\ IF duration = 0
                          THEN pc' = ContinueTarget /\ raised' = "none"
                          ELSE IF exec_status = "unbound"
                          THEN pc' = "raised" /\ raised' = "NameError"
                          ELSE /\ raised' = "none"
                               /\ pc' = IF exec_status \in EXECUTION_COMPLETED
                                        THEN "done" ELSE "sleep"
                  ELSE /\ lastRead' = m.exc
                       /\ UNCHANGED exec_status
                       /\ pc' = "raised"
                       /\ raised' = m.exc

\* time.sleep(interval); duration = time.time() - start.  The time between
\* two computations of duration is the sleep plus whatever the fetch and the
\* wake-up took.
Sleep(extra) ==
    /\ pc = "sleep"
    /\ duration' = duration + interval + extra
    /\ nsleep' = Inc(nsleep)
    /\ lastEvt' = "sleep"
    /\ pc' = "while"
    /\ UNCHANGED <<timeout, interval, execution, exec_status, raised,
                   as_dict_cache, runResp, lastResp, nrun, nfetch, lastRead,
                   lead, pattern, exec_id, fetch_id, apiVars, respVars, xmlVars, nodeVars, connVars, cliVars>>

\* the while test fails: return execution
Return ==
    /\ pc = "while"
    /\ ~LoopCond(duration, timeout)
    /\ pc' = "done"
    /\ UNCHANGED <<timeout, interval, duration, execution, exec_status, raised,
                   as_dict_cache, runResp, lastResp, nrun, nfetch, nsleep,
                   lastEvt, lastRead, lead, pattern, exec_id, fetch_id, apiVars, respVars, xmlVars, nodeVars, connVars, cliVars>>

StartJob ==
    \E a \in {Fresh} \cup Addrs, out \in Docs \cup {HttpFailure}, id \in ExecIds :
        JobRun(a, out, id)

StatusFetch == \E a \in {Fresh} \cup Addrs, out \in Docs \cup {HttpFailure} : FetchExecution(a, out)

SleepInterval == \E extra \in 0..MaxExtra : Sleep(extra)

Next ==
    \/ StartJob
    \/ StatusFetch
    \/ SleepInterval
    \/ Return

Spec == Init /\ [][Next]_vars

FairSpec == Spec /\ WF_vars(Next)

TypeOK ==
    /\ pc \in {"start", "while", "sleep", "done", "raised"}
    /\ exec_status \in Status \cup {"unbound"}
    /\ duration \in 0..(MaxTimeout + MaxInterval + MaxExtra)

\* ------------------------------------------------- job_run_and_block claims
ClaimTerminal == {"succeeded", "failed", "aborted"}

\* C1: whenever a status fetch returns an execution whose status (the value of
\* execution.as_dict['status'] the helper reads) is succeeded, failed or
\* aborted, the call is over with that very execution as its value, and no
\* fetch or sleep follows: no step leaves the state in which the call returned.
C1_AfterTerminalRead ==
    (lastEvt = "fetch" /\ lastRead = "ok" /\ exec_status \in ClaimTerminal)
        => (pc = "done" /\ execution = lastResp /\ raised = "none")

C2_AtReturn ==
    (pc = "done" /\ ~(lastRead = "ok" /\ exec_status \in ClaimTerminal))
        => (duration >= timeout /\ execution = lastResp /\ raised = "none")

C2_ErrorsOnlyFromCalls ==
    pc = "raised" => (lastEvt = "run" \/ (lastEvt = "fetch" /\ duration < timeout))

C3_ZeroTimeout ==
    timeout = 0 =>
        /\ nfetch = 0
        /\ nsleep = 0
        /\ nrun <= 1
        /\ pc \notin {"sleep"}
        /\ pc \in {"while", "done"} => (nrun = 1 /\ execution = runResp /\ raised = "none")

C3_Witness == timeout = 0 /\ pc = "done" /\ execution.doc = "running"

\* C4: (claim) if the backend answers the first k status fetches with a
\* non-terminal status and fetch k+1 with a terminal one, and k sleeps fit in
\* the timeout, the call returns the terminal execution after exactly k+1
\* fetches and k sleeps.  Stated for the runs in which the k sleeps fit
\* whatever the overhead of fetch and wake-up: k * (interval + MaxExtra) < timeout.
C4_TerminalAfterKPolls ==
    /\ (pattern = "term" /\ lead * (interval + MaxExtra) < timeout)
          => /\ pc = "done"
             /\ nfetch = lead + 1
             /\ nsleep = lead
             /\ execution = lastResp
             /\ execution.doc \in ClaimTerminal
    /\ (pattern = "lead" /\ nfetch = lead /\ lead * (interval + MaxExtra) < timeout)
          => /\ pc # "done"
             /\ nsleep \in {lead, lead - 1}

\* C5: (claim) when the first status fetch, at elapsed = 0, cannot be read
\* (AttributeError), the error does not leave the call and the next status
\* fetch is made only after a sleep.
C5_RetryAfterInterval ==
    /\ []((nfetch = 1 /\ lastEvt = "fetch" /\ lastRead = "AttributeError") => pc # "raised")
    /\ [][(nfetch = 1 /\ lastEvt = "fetch" /\ lastRead = "AttributeError") => ~StatusFetch]_vars

\* C6: (claim) when a status fetch made at elapsed > 0 cannot be read
\* (AttributeError), the error leaves the call.
C6_LaterAnomalyPropagates ==
    (lastEvt = "fetch" /\ lastRead = "AttributeError" /\ duration > 0)
        => (pc = "raised" /\ raised = "AttributeError")

\* C7: (claim) every call eventually returns or raises, whatever the backend
\* answers.
C7_Terminates == <>(pc \in {"done", "raised"})

\* C8: the loop is left before the timeout only on a read of succeeded, failed
\* or aborted; a fetch that reads running, pending or skipped is followed by
\* the sleep, which lasts at least interval seconds.
C8_EarlyExitOnlyTerminal ==
    (pc = "done" /\ duration < timeout)
        => (lastEvt = "fetch" /\ lastRead = "ok" /\ exec_status \in ClaimTerminal)

C8_NonTerminalSleeps ==
    (lastEvt = "fetch" /\ lastRead = "ok" /\ exec_status \in {"running", "pending", "skipped"})
        => pc = "sleep"

C8_OnlyTerminalEndsLoop ==
    /\ [](C8_EarlyExitOnlyTerminal /\ C8_NonTerminalSleeps)
    /\ [][pc = "sleep" => (lastEvt' = "sleep" /\ duration' >= duration + interval /\ pc' = "while")]_vars

C8_Witness ==
    /\ lastEvt = "sleep"
    /\ lastRead = "ok"
    /\ exec_status = "skipped"
    /\ execution.doc = "skipped"
    /\ duration < timeout

\* C29: the job is run at most once and before every status fetch; every
\* status fetch asks for the id of the response of that run; a run that fails
\* ends the call with its error and without a fetch; and once the job has been
\* run no step runs it again.
C29_AtStart ==
    /\ nrun <= 1
    /\ nfetch > 0 => (nrun = 1 /\ exec_id = runResp.id /\ fetch_id = exec_id)
    /\ lastEvt = "run" => (nfetch = 0 /\ nsleep = 0)
    /\ (lastEvt = "run" /\ runResp = NoResp) => (pc = "raised" /\ raised = "HTTPError")

api_version_check_OffByOne(version, required_version) == version + 1 < required_version

api_version_check(version, required_version) == version < required_version

HttpOutcomes == {"ok", "HTTPError", "RundeckServerError"}

\* RundeckApi._exec: one HTTP request through connection.call; the response is
\* returned, or raise_for_status / raise_for_error raises.
ApiExec(call, method, url, http) ==
    /\ api_call' = call
    /\ api_requests' = <<[method |-> method, url |-> url, outcome |-> http]>>
    /\ api_result' = IF http = "ok" THEN "response" ELSE http

\* a method stopped by self.requires_version(...) before its _exec
ApiRefuse(call) ==
    /\ api_call' = call
    /\ api_requests' = << >>
    /\ api_result' = "NotImplementedError"

Call(op, f1, f2) == [op |-> op, f1 |-> f1, f2 |-> f2, create |-> "None"]

\* RundeckApiTolerant.jobs
ApiJobs(jobExactFilter, groupPathExact, http) ==
    LET call == Call("jobs", jobExactFilter, groupPathExact) IN
    /\ IF (jobExactFilter \/ groupPathExact) /\ api_version_check(api_version, 2)
       THEN ApiRefuse(call)
       ELSE ApiExec(call, "get", "jobs", http)
    /\ UNCHANGED <<api_version, blockVars, respVars, xmlVars, nodeVars, connVars, cliVars>>

\* RundeckApiTolerant.execution
ApiExecution(http) ==
    /\ ApiExec(Call("execution", FALSE, FALSE), "get", "execution/ID", http)
    /\ UNCHANGED <<api_version, blockVars, respVars, xmlVars, nodeVars, connVars, cliVars>>

\* RundeckApiTolerant.executions
ApiExecutions(http) ==
    LET call == Call("executions", FALSE, FALSE) IN
    /\ IF api_version_check(api_version, 5)
       THEN ApiRefuse(call)
       ELSE ApiExec(call, "get", "executions", http)
    /\ UNCHANGED <<api_version, blockVars, respVars, xmlVars, nodeVars, connVars, cliVars>>

\* RundeckApiTolerant.run_script
ApiRunScript(scriptInterpreter, interpreterArgsQuoted, http) ==
    LET call == Call("run_script", scriptInterpreter, interpreterArgsQuoted) IN
    /\ IF (scriptInterpreter \/ interpreterArgsQuoted) /\ api_version_check(api_version, 8)
       THEN ApiRefuse(call)
       ELSE ApiExec(call, "post", "run/script", http)
    /\ UNCHANGED <<api_version, blockVars, respVars, xmlVars, nodeVars, connVars, cliVars>>

\* RundeckApiTolerant.run_url
ApiRunUrl(scriptInterpreter, interpreterArgsQuoted, http) ==
    LET call == Call("run_url", scriptInterpreter, interpreterArgsQuoted) IN
    /\ IF api_version_check(api_version, 4)
       THEN ApiRefuse(call)
       ELSE IF (scriptInterpreter \/ interpreterArgsQuoted) /\ api_version_check(api_version, 8)
       THEN ApiRefuse(call)
       ELSE ApiExec(call, "post", "run/url", http)
    /\ UNCHANGED <<api_version, blockVars, respVars, xmlVars, nodeVars, connVars, cliVars>>

\* RundeckApiTolerant._post_projects
ApiPostProjects(http) ==
    LET call == Call("_post_projects", FALSE, FALSE) IN
    /\ IF api_version_check(api_version, 11)
       THEN ApiRefuse(call)
       ELSE ApiExec(call, "post", "projects", http)
    /\ UNCHANGED <<api_version, blockVars, respVars, xmlVars, nodeVars, connVars, cliVars>>

\* the clause `except HTTPError` around the GET of project: the exceptions it
\* catches
except_HTTPError_Any(exc) == exc # "ok"

except_HTTPError(exc) == exc = "HTTPError"

\* the value of create when the keyword is not passed
create_default(version) == version >= 11

\* RundeckApiTolerant.project: create is None, True or False; the GET, and on
\* its HTTPError the POST when create is in effect.
ApiProject(create, httpGet, httpPost) ==
    LET call == [op |-> "project", f1 |-> FALSE, f2 |-> FALSE, create |-> create]
        doCreate == IF create = "None" THEN create_default(api_version) ELSE create = "True"
        get == [method |-> "get", url |-> "project/NAME", outcome |-> httpGet]
        post == [method |-> "post", url |-> "project/NAME", outcome |-> httpPost]
    IN
    /\ api_call' = call
    /\ IF create = "True" /\ api_version_check(api_version, 11)
       THEN /\ api_requests' = << >>
            /\ api_result' = "NotImplementedError"
       ELSE IF except_HTTPError(httpGet) /\ doCreate
       THEN /\ api_requests' = <<get, post>>
            /\ api_result' = IF httpPost = "ok" THEN "response" ELSE httpPost
       ELSE /\ api_requests' = <<get>>
            /\ api_result' = IF httpGet = "ok" THEN "response" ELSE httpGet
    /\ UNCHANGED <<api_version, blockVars, respVars, xmlVars, nodeVars, connVars, cliVars>>

\* RundeckApiTolerant.project_resources
ApiProjectResources(http) ==
    LET call == Call("project_resources", FALSE, FALSE) IN
    /\ IF api_version_check(api_version, 2)
       THEN ApiRefuse(call)
       ELSE ApiExec(call, "get", "project/NAME/resources", http)
    /\ UNCHANGED <<api_version, blockVars, respVars, xmlVars, nodeVars, connVars, cliVars>>

\* RundeckApiTolerant.project_resources_refresh
ApiProjectResourcesRefresh(http) ==
    LET call == Call("project_resources_refresh", FALSE, FALSE) IN
    /\ IF api_version_check(api_version, 2)
       THEN ApiRefuse(call)
       ELSE ApiExec(call, "post", "project/NAME/resources/refresh", http)
    /\ UNCHANGED <<api_version, blockVars, respVars, xmlVars, nodeVars, connVars, cliVars>>

\* RundeckApiTolerant.history
ApiHistory(http) ==
    LET call == Call("history", FALSE, FALSE) IN
    /\ IF api_version_check(api_version, 4)
       THEN ApiRefuse(call)
       ELSE ApiExec(call, "get", "history", http)
    /\ UNCHANGED <<api_version, blockVars, respVars, xmlVars, nodeVars, connVars, cliVars>>

\* RundeckConnectionTolerant.__init__ accepts api_version 1..RUNDECK_API_VERSION
InitApi ==
    /\ BlockIdle
    /\ RespIdle
    /\ ClientIdle
    /\ XmlIdle
    /\ api_version \in 1..RUNDECK_API_VERSION
    /\ api_call = NoCall
    /\ api_result = "none"
    /\ api_requests = << >>

NextApi ==
    \/ \E a, b \in BOOLEAN, h \in HttpOutcomes : ApiJobs(a, b, h)
    \/ \E h \in HttpOutcomes : ApiExecution(h)
    \/ \E h \in HttpOutcomes : ApiExecutions(h)
    \/ \E a, b \in BOOLEAN, h \in HttpOutcomes : ApiRunScript(a, b, h)
    \/ \E a, b \in BOOLEAN, h \in HttpOutcomes : ApiRunUrl(a, b, h)
    \/ \E h \in HttpOutcomes : ApiPostProjects(h)
    \/ \E c \in {"None", "True", "False"}, g \in HttpOutcomes, h \in HttpOutcomes : ApiProject(c, g, h)
    \/ \E h \in HttpOutcomes : ApiProjectResources(h)
    \/ \E h \in HttpOutcomes : ApiProjectResourcesRefresh(h)
    \/ \E h \in HttpOutcomes : ApiHistory(h)

SpecApi == InitApi /\ [][NextApi]_vars

\* The minimum API version of a call, as the documentation of the API lists it.
ClaimRequired(call) ==
    CASE call.op = "executions" -> 5
      [] call.op = "history" -> 4
      [] call.op = "run_url" -> IF call.f1 \/ call.f2 THEN 8 ELSE 4
      [] call.op = "run_script" -> IF call.f1 \/ call.f2 THEN 8 ELSE 0
      [] call.op = "jobs" -> IF call.f1 \/ call.f2 THEN 2 ELSE 0
      [] call.op = "project_resources" -> 2
      [] call.op = "project_resources_refresh" -> 2
      [] call.op = "project" -> IF call.create = "True" THEN 11 ELSE 0
      [] OTHER -> 0

\* C9: a call whose minimum API version is above the connection's api_version
\* ends with the version error and has issued no HTTP request.
C9_VersionCheckBeforeRequest ==
    api_version < ClaimRequired(api_call)
        => (api_result = "NotImplementedError" /\ api_requests = << >>)

C9_Witness ==
    /\ api_call.op = "run_url"
    /\ api_call.f1
    /\ api_version = 7
    /\ api_result = "NotImplementedError"
    /\ api_requests = << >>

\* C26: a call of project issues at most a GET and then a POST to the same
\* URL; the POST is there only after the GET failed with an HTTP error and
\* create was not false, and it is there when create was true and the GET
\* failed with an HTTP error; with create false the outcome of the call is the
\* outcome of the GET, and so it is when the GET succeeded.
C26_PostOnlyAfterFailedGet ==
    api_call.op = "project" =>
        /\ Len(api_requests) <= 2
        /\ \A i \in DOMAIN api_requests :
              api_requests[i].method = "post" =>
                 /\ i = 2
                 /\ api_requests[1].method = "get"
                 /\ api_requests[1].url = api_requests[2].url
                 /\ api_requests[1].outcome = "HTTPError"
                 /\ api_call.create # "False"
        /\ (Len(api_requests) >= 1 /\ api_call.create = "True"
               /\ api_requests[1].outcome = "HTTPError") => Len(api_requests) = 2
        /\ (Len(api_requests) >= 1
               /\ (api_call.create = "False" \/ api_requests[1].outcome = "ok"))
              => /\ Len(api_requests) = 1
                 /\ api_result = IF api_requests[1].outcome = "ok" THEN "response"
                                 ELSE api_requests[1].outcome

C26_Witness ==
    /\ api_call.op = "project"
    /\ api_call.create = "True"
    /\ Len(api_requests) = 2
    /\ api_requests[1].method = "get"
    /\ api_requests[1].outcome = "HTTPError"
    /\ api_requests[2].method = "post"
    /\ api_result = "response"

\* C27: (claim) a call of project without create on a connection of a
\* supported API version (1 to 11) issues no POST.
C27_NoImplicitCreate ==
    (api_call.op = "project" /\ api_call.create = "None"
        /\ api_version \in 1..RUNDECK_API_VERSION)
        => \A i \in DOMAIN api_requests : api_requests[i].method # "post"

\* ------------------------------------------------------ response envelope
\* The body of a reply as RundeckResponse reads it: whether the root element
\* has a 'success' attribute, and for each of the <success> and <error>
\* children whether it is absent, present without a <message> child, or
\* present with a message (named by its text).
Messages == {"Execution status: previously succeeded", "No such job"}
Absent == "absent"
NoMessage == "no_message"
Children == {Absent, NoMessage} \cup Messages
Envelopes == [attr : BOOLEAN, success_el : Children, error_el : Children]

\* memoize, for a property whose body gives computed = [exc, val]: the cache
\* entry of the response's address wins over the response's own document, a
\* miss stores the computed value and an exception stores nothing.
memoize(resp, cache, computed) ==
    IF resp.addr # Fresh /\ cache[resp.addr].hit
    THEN [exc |-> "none", val |-> cache[resp.addr].val, cache |-> cache]
    ELSE IF computed.exc # "none"
    THEN [exc |-> computed.exc, val |-> computed.val, cache |-> cache]
    ELSE [exc |-> "none", val |-> computed.val,
          cache |-> IF resp.addr = Fresh THEN cache
                    ELSE [cache EXCEPT ![resp.addr] = [hit |-> TRUE, val |-> computed.val]]]

\* RundeckResponse.success: 'success' in self.etree.attrib
success(resp, scache) ==
    memoize(resp, scache, [exc |-> "none", val |-> resp.doc.attr])

\* the body of RundeckResponse.message, given the value self.success has
message_body(doc, succ) ==
    LET term == IF succ THEN "success" ELSE "error"
        message_el == IF succ THEN doc.success_el ELSE doc.error_el
    IN IF message_el = Absent THEN [exc |-> "none", val |-> term]
       ELSE IF message_el = NoMessage THEN [exc |-> "AttributeError", val |-> "none"]
       ELSE [exc |-> "none", val |-> message_el]

\* RundeckResponse.message: [exc, val, cache (of message), scache (of success)]
message(resp, mcache, scache) ==
    IF resp.addr # Fresh /\ mcache[resp.addr].hit
    THEN [exc |-> "none", val |-> mcache[resp.addr].val, cache |-> mcache, scache |-> scache]
    ELSE LET s == success(resp, scache)
             m == memoize(resp, mcache, message_body(resp.doc, s.val))
         IN [exc |-> m.exc, val |-> m.val, cache |-> m.cache, scache |-> s.cache]

\* connection.call: a reply arrives and is wrapped in a new RundeckResponse,
\* allocated while the previous one is still referenced.
NewResponse(a, doc) ==
    /\ a = Fresh \/ a # response.addr
    /\ response' = [addr |-> a, doc |-> doc]
    /\ rfe' = NoRfe
    /\ got' = NoRead
    /\ call_out' = NoOut
    /\ UNCHANGED <<success_cache, message_cache, blockVars, apiVars, xmlVars, nodeVars, connVars, cliVars>>

\* reading response.success
ReadSuccess ==
    /\ response.addr # Nowhere
    /\ LET s == success(response, success_cache)
           own == success(response, NoCache)
       IN /\ success_cache' = s.cache
          /\ got' = [prop |-> "success", exc |-> s.exc, val |-> s.val,
                     own |-> [exc |-> own.exc, val |-> own.val]]
    /\ rfe' = NoRfe
    /\ call_out' = NoOut
    /\ UNCHANGED <<response, message_cache, blockVars, apiVars, xmlVars, nodeVars, connVars, cliVars>>

\* reading response.message
ReadMessage ==
    /\ response.addr # Nowhere
    /\ LET m == message(response, message_cache, success_cache)
           own == message(response, NoCache, NoCache)
       IN /\ message_cache' = m.cache
          /\ success_cache' = m.scache
          /\ got' = [prop |-> "message", exc |-> m.exc, val |-> m.val,
                     own |-> [exc |-> own.exc, val |-> own.val]]
    /\ rfe' = NoRfe
    /\ call_out' = NoOut
    /\ UNCHANGED <<response, blockVars, apiVars, xmlVars, nodeVars, connVars, cliVars>>

\* RundeckResponse.raise_for_error(msg): msg is None or a text of the caller
RaiseForError(msg) ==
    /\ response.addr # Nowhere
    /\ LET m == IF msg = "None"
                THEN message(response, message_cache, success_cache)
                ELSE [exc |-> "none", val |-> msg, cache |-> message_cache,
                      scache |-> success_cache]
           s == success(response, m.scache)
       IN /\ message_cache' = m.cache
          /\ IF m.exc # "none"
             THEN /\ success_cache' = m.scache
                  /\ rfe' = [outcome |-> m.exc, msg |-> "none", response |-> response,
                             success |-> s.val]
             ELSE /\ success_cache' = s.cache
                  /\ rfe' = [outcome |-> IF ~s.val THEN "RundeckServerError" ELSE "returned",
                             msg |-> m.val, response |-> response, success |-> s.val]
    /\ got' = NoRead
    /\ call_out' = NoOut
    /\ UNCHANGED <<response, blockVars, apiVars, xmlVars, nodeVars, connVars, cliVars>>

\* result.raise_for_error() with no msg: [outcome, mcache, scache]
raise_for_error(resp, mcache, scache) ==
    LET m == message(resp, mcache, scache)
        s == success(resp, m.scache)
    IN IF m.exc # "none"
       THEN [outcome |-> m.exc, mcache |-> m.cache, scache |-> m.scache]
       ELSE [outcome |-> IF ~s.val THEN "RundeckServerError" ELSE "returned",
             mcache |-> m.cache, scache |-> s.cache]

\* _exec of RundeckApiTolerant (cls = "RundeckApiTolerant") or of RundeckApi,
\* once connection.call has given the response: RundeckApi calls
\* raise_for_error on it unless quiet is passed or the response is not parsed
ApiClasses == {"RundeckApiTolerant", "RundeckApi"}

Exec(cls, quiet, parse_response) ==
    /\ response.addr # Nowhere
    /\ LET checked == cls = "RundeckApi" /\ ~quiet /\ parse_response
           r == IF checked THEN raise_for_error(response, message_cache, success_cache)
                ELSE [outcome |-> "returned", mcache |-> message_cache,
                      scache |-> success_cache]
       IN /\ message_cache' = r.mcache
          /\ success_cache' = r.scache
          /\ call_out' = [cls |-> cls, quiet |-> quiet, parse_response |-> parse_response,
                          outcome |-> r.outcome]
    /\ rfe' = NoRfe
    /\ got' = NoRead
    /\ UNCHANGED <<response, blockVars, apiVars, xmlVars, nodeVars, connVars, cliVars>>

InitResp ==
    /\ BlockIdle
    /\ ApiIdle
    /\ RespIdle
    /\ ClientIdle
    /\ XmlIdle

NextResp ==
    \/ \E a \in {Fresh} \cup RespAddrs, doc \in Envelopes : NewResponse(a, doc)
    \/ ReadSuccess
    \/ ReadMessage
    \/ \E msg \in {"None", "custom text"} : RaiseForError(msg)
    \/ \E cls \in ApiClasses, quiet \in BOOLEAN, parse_response \in BOOLEAN :
          Exec(cls, quiet, parse_response)

SpecResp == InitResp /\ [][NextResp]_vars

\* C10: (claim) raise_for_error raises the server error, carrying the message
\* and the response, exactly when the response's success is false, and raises
\* nothing when it is true, whatever else the document holds.
C10_RaisesIffNotSuccess ==
    rfe.outcome # "none" =>
        IF rfe.success
        THEN rfe.outcome = "returned"
        ELSE rfe.outcome = "RundeckServerError" /\ rfe.response = response

\* C22: (claim) a call through RundeckApi without quiet and with a parsed
\* response raises the server error when the response's document has no
\* success marker and returns the response when it has one; a call through
\* RundeckApiTolerant returns the response.
C22_StrictRaisesOnEveryError ==
    call_out.outcome # "none" =>
        IF call_out.cls = "RundeckApi" /\ ~call_out.quiet /\ call_out.parse_response
        THEN call_out.outcome = IF response.doc.attr THEN "returned" ELSE "RundeckServerError"
        ELSE call_out.outcome = "returned"

\* C11: (claim) a read of success on a response whose root has the success
\* marker gives true, and a read of message gives the text of the <message> of
\* its <success> element; on a response with the error marker instead, success
\* reads false and message reads the text of the <message> of its <error>
\* element.
C11_MarkerDecidesSuccessAndMessage ==
    /\ (response.addr # Nowhere /\ response.doc.attr /\ response.doc.success_el \in Messages)
          => /\ got.prop = "success" => got.val = TRUE
             /\ got.prop = "message" =>
                    (got.exc = "none" /\ got.val = response.doc.success_el)
    /\ (response.addr # Nowhere /\ ~response.doc.attr /\ response.doc.error_el \in Messages)
          => /\ got.prop = "success" => got.val = FALSE
             /\ got.prop = "message" =>
                    (got.exc = "none" /\ got.val = response.doc.error_el)

\* C17: (claim) what a read of success or message gives is what the response's
\* own document gives, whatever responses were created, read and discarded
\* before it.
C17_ReadsOwnDocument ==
    got.prop # "none" => (got.exc = got.own.exc /\ got.val = got.own.val)

\* ------------------------------------------------- field extraction helpers
\* An element of the parsed document: its tag, its text (None when it has
\* none), its attributes (a mapping) and its child elements in document order.
NoneText == "None"
NoAttrib == [k \in {} |-> NoneText]
Leaf(tag, text) == [tag |-> tag, text |-> text, attrib |-> NoAttrib, children |-> << >>]

\* util.child2dict: {c.tag: c.text for c in el}; of children with the same tag
\* the last one wins.  val is the mapping returned, el the element afterwards.
child2dict_Consuming(el) ==
    [val |-> [t \in {el.children[i].tag : i \in DOMAIN el.children} |->
                 el.children[CHOOSE i \in DOMAIN el.children :
                                /\ el.children[i].tag = t
                                /\ \A j \in DOMAIN el.children :
                                      el.children[j].tag = t => j <= i].text],
     el |-> [el EXCEPT !.children = << >>]]

child2dict(el) ==
    [val |-> [t \in {el.children[i].tag : i \in DOMAIN el.children} |->
                 el.children[CHOOSE i \in DOMAIN el.children :
                                /\ el.children[i].tag = t
                                /\ \A j \in DOMAIN el.children :
                                      el.children[j].tag = t => j <= i].text],
     el |-> el]

\* util.attr2dict: {k: v for k, v in el.items()}
attr2dict(el) ==
    [val |-> [k \in DOMAIN el.attrib |-> el.attrib[k]], el |-> el]

\* util.node2dict: dict(list(attr2dict(el).items()) + list(child2dict(el).items()))
node2dict_AttrWins(el) ==
    LET a == attr2dict(el).val
        c == child2dict(el).val
    IN [val |-> [k \in DOMAIN a \cup DOMAIN c |-> IF k \in DOMAIN a THEN a[k] ELSE c[k]],
        el |-> el]

node2dict(el) ==
    LET a == attr2dict(el).val
        c == child2dict(el).val
    IN [val |-> [k \in DOMAIN a \cup DOMAIN c |-> IF k \in DOMAIN c THEN c[k] ELSE a[k]],
        el |-> el]

\* Element.find(tag) on the children of an element: the position of the first
\* child with that tag, 0 for None
find(children, tag) ==
    IF \E i \in DOMAIN children : children[i].tag = tag
    THEN CHOOSE i \in DOMAIN children :
            /\ children[i].tag = tag
            /\ \A j \in DOMAIN children : children[j].tag = tag => i <= j
    ELSE 0

\* Element.remove(child): the children without the one at position i
remove(children, i) ==
    [j \in 1..(Len(children) - 1) |-> IF j < i THEN children[j] ELSE children[j + 1]]

\* datetime.strptime(text, _DATETIME_ISOFORMAT)
strptime(text) == [datetime |-> text]

\* ------------------------------------------------------ plural transforms
MaxItems == 2

\* the elements the replies are made of
JobEl ==
    [tag |-> "job", text |-> NoneText, attrib |-> ("id" :> "f114ab12"),
     children |-> <<Leaf("name", "hello_world"), Leaf("group", NoneText)>>]

ExecutionEl(id, withJob) ==
    [tag |-> "execution", text |-> NoneText,
     attrib |-> ("id" :> id @@ "status" :> (IF id = "282" THEN "succeeded" ELSE "running")),
     children |-> <<Leaf("user", "admin"), Leaf("date-started", "2013-11-02T03:58:12Z")>>
                  \o (IF id = "282" THEN <<Leaf("date-ended", "2013-11-02T03:58:13Z")>> ELSE << >>)
                  \o (IF withJob THEN <<JobEl>> ELSE << >>)]

ExecutionEls == {ExecutionEl(id, j) : id \in {"282", "283"}, j \in BOOLEAN}

ProjectEl(name, res) ==
    [tag |-> "project", text |-> NoneText, attrib |-> NoAttrib,
     children |-> <<Leaf("name", name), Leaf("description", NoneText)>>
                  \o (IF res = "absent" THEN << >>
                      ELSE IF res = "empty" THEN <<Leaf("resources", NoneText)>>
                      ELSE <<[tag |-> "resources", text |-> NoneText, attrib |-> NoAttrib,
                              children |-> <<Leaf("providerURL", "http://host/nodes")>>]>>)]

ProjectEls == {ProjectEl(n, r) : n \in {"alpha", "beta"}, r \in {"absent", "empty", "full"}}

JobItemEl(id, named) ==
    [tag |-> "job", text |-> NoneText,
     attrib |-> IF named THEN ("id" :> id @@ "name" :> "name_attribute") ELSE ("id" :> id),
     children |-> <<Leaf("name", "hello_world"), Leaf("group", NoneText),
                    Leaf("project", "TestProject")>>]

JobItemEls == {JobItemEl(id, n) : id \in {"f114ab12", "0a6c3c9f"}, n \in BOOLEAN}

SeqsUpTo(S, n) == UNION {[1..k -> S] : k \in 0..n}

\* resp.etree as a transform sees it: whether the container element of the
\* kind is there, its count attribute, and the item elements under it
Trees(kind, pool) ==
    {[kind |-> kind, container |-> FALSE, count |-> 0, items |-> << >>]}
    \cup {[kind |-> kind, container |-> TRUE, count |-> c, items |-> its] :
              c \in 0..MaxItems, its \in SeqsUpTo(pool, MaxItems)}

\* the <deleteJobResult> elements of a reply to a bulk delete
DeleteResultEl(id, ok) ==
    [tag |-> "deleteJobResult", text |-> NoneText,
     attrib |-> IF ok THEN ("id" :> id) ELSE ("id" :> id @@ "errorCode" :> "notfound"),
     children |-> IF ok THEN <<Leaf("message", "Job was successfully deleted")>>
                  ELSE <<Leaf("error", "Job ID does not exist")>>]

\* the reply to a bulk delete: the <deleteJobs> element with requestCount (as
\* count) and allsuccessful, which the server sets to "true" when no deletion
\* failed and to "false" otherwise; items are the results, the ones with an
\* errorCode under <failed> and the others under <succeeded>
DeleteTrees ==
    {[kind |-> "deleteJobs", container |-> FALSE, count |-> 0, items |-> << >>,
      allsuccessful |-> "absent"]}
    \cup {[kind |-> "deleteJobs", container |-> TRUE, count |-> Len(its), items |-> its,
           allsuccessful |-> IF \E i \in DOMAIN its : "errorCode" \in DOMAIN its[i].attrib
                             THEN "false" ELSE "true"] :
              its \in SeqsUpTo({DeleteResultEl(id, ok) : id \in {"f114ab12", "0a6c3c9f"},
                                                            ok \in BOOLEAN},
                              MaxItems)}

AllTrees ==
    Trees("executions", ExecutionEls) \cup Trees("projects", ProjectEls)
        \cup Trees("jobs", JobItemEls) \cup DeleteTrees

\* the test `count > 0` of executions, jobs and projects
HasItems_OrZero(count) == count >= 0

HasItems_MoreThanOne(count) == count > 1

HasItems(count) == count > 0

\* executions.xform: the record of one <execution> element.  The nested <job>
\* is removed from the element once its record is taken.
xform_Flattening(el) ==
    LET c == child2dict(el).val
        a == attr2dict(el).val
        data == [k \in DOMAIN c \cup DOMAIN a |-> IF k \in DOMAIN a THEN a[k] ELSE c[k]]
        j == find(el.children, "job")
        job == IF j = 0 THEN NoAttrib ELSE node2dict(el.children[j]).val
        withJob == IF j = 0 THEN data
                   ELSE [k \in DOMAIN data \cup DOMAIN job \cup {"job"} |->
                            IF k = "job" THEN job
                            ELSE IF k \in DOMAIN data THEN data[k] ELSE job[k]]
    IN [val |-> [k \in DOMAIN withJob |->
                    IF k \in {"date-started", "date-ended"}
                    THEN strptime(withJob[k]) ELSE withJob[k]],
        el |-> IF j = 0 THEN el ELSE [el EXCEPT !.children = remove(el.children, j)]]

xform(el) ==
    LET c == child2dict(el).val
        a == attr2dict(el).val
        data == [k \in DOMAIN c \cup DOMAIN a |-> IF k \in DOMAIN a THEN a[k] ELSE c[k]]
        j == find(el.children, "job")
        withJob == IF j = 0 THEN data
                   ELSE [k \in DOMAIN data \cup {"job"} |->
                            IF k = "job" THEN node2dict(el.children[j]).val ELSE data[k]]
    IN [val |-> [k \in DOMAIN withJob |->
                    IF k \in {"date-started", "date-ended"}
                    THEN strptime(withJob[k]) ELSE withJob[k]],
        el |-> IF j = 0 THEN el ELSE [el EXCEPT !.children = remove(el.children, j)]]

\* transforms.executions: [exc, val (the list), tree (resp.etree afterwards)]
executions_transform(tree) ==
    IF ~tree.container
    THEN [exc |-> "AttributeError", val |-> << >>, tree |-> tree]
    ELSE IF HasItems(tree.count)
    THEN LET rs == [i \in DOMAIN tree.items |-> xform(tree.items[i])] IN
         [exc |-> "none",
          val |-> [i \in DOMAIN tree.items |-> rs[i].val],
          tree |-> [tree EXCEPT !.items = [i \in DOMAIN tree.items |-> rs[i].el]]]
    ELSE [exc |-> "none", val |-> << >>, tree |-> tree]

\* transforms.execution: executions(resp)[0]
execution_transform_Last(tree) ==
    LET all == executions_transform(tree) IN
    IF all.exc # "none" THEN all
    ELSE IF Len(all.val) = 0 THEN [exc |-> "none", val |-> NoAttrib, tree |-> all.tree]
    ELSE [exc |-> "none", val |-> all.val[Len(all.val)], tree |-> all.tree]

execution_transform(tree) ==
    LET all == executions_transform(tree) IN
    IF all.exc # "none" THEN all
    ELSE IF Len(all.val) = 0 THEN [exc |-> "IndexError", val |-> << >>, tree |-> all.tree]
    ELSE [exc |-> "none", val |-> all.val[1], tree |-> all.tree]

\* transforms.jobs
jobs_transform(tree) ==
    IF ~tree.container
    THEN [exc |-> "AttributeError", val |-> << >>, tree |-> tree]
    ELSE IF HasItems(tree.count)
    THEN [exc |-> "none",
          val |-> [i \in DOMAIN tree.items |-> node2dict(tree.items[i]).val],
          tree |-> tree]
    ELSE [exc |-> "none", val |-> << >>, tree |-> tree]

\* the body of the loop of transforms.projects: the record of one <project>
\* element.  `if resources_el:` is true for an element that has children.
project_record(el) ==
    LET r == find(el.children, "resources")
        taken == r # 0 /\ Len(el.children[r].children) > 0
        el2 == IF taken THEN [el EXCEPT !.children = remove(el.children, r)] ELSE el
        c == child2dict(el2).val
    IN [val |-> IF taken
                THEN [k \in DOMAIN c \cup {"resources"} |->
                         IF k \in DOMAIN c THEN c[k] ELSE child2dict(el.children[r]).val]
                ELSE c,
        el |-> el2]

\* transforms.projects
projects_transform(tree) ==
    IF ~tree.container
    THEN [exc |-> "AttributeError", val |-> << >>, tree |-> tree]
    ELSE IF HasItems(tree.count)
    THEN LET rs == [i \in DOMAIN tree.items |-> project_record(tree.items[i])] IN
         [exc |-> "none",
          val |-> [i \in DOMAIN tree.items |-> rs[i].val],
          tree |-> [tree EXCEPT !.items = [i \in DOMAIN tree.items |-> rs[i].el]]]
    ELSE [exc |-> "none", val |-> << >>, tree |-> tree]

\* transforms.project: projects(resp)[0]
project_transform(tree) ==
    LET all == projects_transform(tree) IN
    IF all.exc # "none" THEN all
    ELSE IF Len(all.val) = 0 THEN [exc |-> "IndexError", val |-> << >>, tree |-> all.tree]
    ELSE [exc |-> "none", val |-> all.val[1], tree |-> all.tree]

\* bool(v) of an attribute value: a str is true when it is not empty, None
\* (the attribute is absent) is false
bool(v) == v \notin {"", "absent"}

\* the positions of the results under <succeeded> (failed = FALSE) or <failed>
RECURSIVE Under(_, _, _)
Under(items, failed, i) ==
    IF i > Len(items) THEN << >>
    ELSE (IF ("errorCode" \in DOMAIN items[i].attrib) = failed THEN <<i>> ELSE << >>)
         \o Under(items, failed, i + 1)

\* transforms.jobs_delete
jobs_delete_transform(tree) ==
    IF ~tree.container
    THEN [exc |-> "AttributeError", val |-> << >>, tree |-> tree]
    ELSE LET part(failed) ==
                 LET at == Under(tree.items, failed, 1) IN
                 IF Len(at) = 0 THEN [present |-> FALSE, count |-> 0, jobs |-> << >>]
                 ELSE [present |-> TRUE, count |-> Len(at),
                       jobs |-> [k \in DOMAIN at |-> node2dict(tree.items[at[k]]).val]]
         IN [exc |-> "none",
             val |-> [succeeded |-> part(FALSE),
                      failed |-> part(TRUE),
                      requestCount |-> tree.count,
                      allsuccessful |-> bool(tree.allsuccessful)],
             tree |-> tree]

\* what is remembered of an application once another one follows it
Brief(x) ==
    IF x.op = "none" THEN NoXf
    ELSE [op |-> x.op, arg |-> x.arg, exc |-> x.exc, val |-> x.val]

\* a transform is applied to the response
Applied(op, r) ==
    /\ xf' = [op |-> op, arg |-> 0, exc |-> r.exc, val |-> r.val, pre |-> etree]
    /\ prev' = Brief(xf)
    /\ etree' = r.tree
    /\ UNCHANGED <<blockVars, apiVars, respVars, nodeVars, connVars, cliVars>>

\* a helper is applied to the i-th item element of the response
AppliedTo(op, i, r) ==
    /\ xf' = [op |-> op, arg |-> i, exc |-> "none", val |-> r.val, pre |-> etree]
    /\ prev' = Brief(xf)
    /\ etree' = [etree EXCEPT !.items[i] = r.el]
    /\ UNCHANGED <<blockVars, apiVars, respVars, nodeVars, connVars, cliVars>>

Executions == etree.kind = "executions" /\ Applied("executions", executions_transform(etree))

Execution == etree.kind = "executions" /\ Applied("execution", execution_transform(etree))

Jobs == etree.kind = "jobs" /\ Applied("jobs", jobs_transform(etree))

Projects == etree.kind = "projects" /\ Applied("projects", projects_transform(etree))

Project == etree.kind = "projects" /\ Applied("project", project_transform(etree))

JobsDelete == etree.kind = "deleteJobs" /\ Applied("jobs_delete", jobs_delete_transform(etree))

Child2dict == \E i \in DOMAIN etree.items : AppliedTo("child2dict", i, child2dict(etree.items[i]))

Attr2dict == \E i \in DOMAIN etree.items : AppliedTo("attr2dict", i, attr2dict(etree.items[i]))

Node2dict == \E i \in DOMAIN etree.items : AppliedTo("node2dict", i, node2dict(etree.items[i]))

InitXml ==
    /\ BlockIdle
    /\ ApiIdle
    /\ RespIdle
    /\ ClientIdle
    /\ etree \in AllTrees
    /\ xf = NoXf
    /\ prev = NoXf
    /\ rnode = NoNode
    /\ frags = << >>
    /\ nstage = "none"

NextXml ==
    \/ Executions
    \/ Execution
    \/ Jobs
    \/ Projects
    \/ Project
    \/ JobsDelete
    \/ Child2dict
    \/ Attr2dict
    \/ Node2dict

SpecXml == InitXml /\ [][NextXml]_vars

\* C12: the executions transform applied to a response whose <executions>
\* container has count 0 returns the empty list and raises nothing, with or
\* without <execution> children under the container.
C12_CountZeroGivesEmpty ==
    (xf.op = "executions" /\ xf.pre.container /\ xf.pre.count = 0)
        => (xf.exc = "none" /\ xf.val = << >>)

C12_Witness ==
    /\ xf.op = "executions"
    /\ xf.pre.container
    /\ xf.pre.count = 0
    /\ Len(xf.pre.items) = 2
    /\ xf.exc = "none"
    /\ xf.val = << >>

\* what names an item element: its id attribute, or the text of its <name>
ItemName(el) ==
    IF "id" \in DOMAIN el.attrib THEN el.attrib["id"]
    ELSE el.children[find(el.children, "name")].text

RecordName(rec) == IF "id" \in DOMAIN rec THEN rec["id"] ELSE rec["name"]

\* C13: a plural transform applied to a response whose container has count
\* n > 0 and n item elements returns n records, the i-th being the record of
\* the i-th item element.
C13_OneRecordPerItemInOrder ==
    (/\ xf.op \in {"executions", "jobs", "projects"}
     /\ xf.pre.container
     /\ xf.pre.count > 0
     /\ xf.pre.count = Len(xf.pre.items))
        => /\ xf.exc = "none"
           /\ Len(xf.val) = xf.pre.count
           /\ \A i \in DOMAIN xf.pre.items : RecordName(xf.val[i]) = ItemName(xf.pre.items[i])

C13_Witness ==
    /\ xf.op = "projects"
    /\ xf.pre.count = 2
    /\ Len(xf.pre.items) = 2
    /\ Len(xf.val) = 2
    /\ xf.val[1]["name"] = "beta"
    /\ xf.val[2]["name"] = "alpha"

\* C14: execution gives the first element of what executions gives for the
\* same document, and project the first of projects; when the plural result is
\* empty the singular transform raises.
C14_SingularIsFirstOfPlural ==
    /\ xf.op = "execution" =>
          LET all == executions_transform(xf.pre) IN
          /\ (all.exc = "none" /\ Len(all.val) > 0) => (xf.exc = "none" /\ xf.val = all.val[1])
          /\ (all.exc = "none" /\ Len(all.val) = 0) => xf.exc # "none"
    /\ xf.op = "project" =>
          LET all == projects_transform(xf.pre) IN
          /\ (all.exc = "none" /\ Len(all.val) > 0) => (xf.exc = "none" /\ xf.val = all.val[1])
          /\ (all.exc = "none" /\ Len(all.val) = 0) => xf.exc # "none"

C14_Witness ==
    /\ xf.op = "execution"
    /\ xf.exc = "none"
    /\ Len(xf.pre.items) = 2
    /\ xf.pre.items[1].attrib["id"] = "283"
    /\ xf.pre.items[2].attrib["id"] = "282"
    /\ xf.val["id"] = "283"

C14_WitnessEmpty ==
    /\ xf.op = "project"
    /\ xf.pre.container
    /\ xf.pre.count = 0
    /\ xf.exc = "IndexError"

\* C15: the record of an <execution> element with a nested <job> has under
\* 'job' the record of the job element (its attributes and child text), and
\* every other key is an attribute or the tag of a direct child of the
\* execution element.
C15_JobNestedNotLeaked ==
    (xf.op = "executions" /\ xf.exc = "none")
        => \A i \in DOMAIN xf.val :
              LET item == xf.pre.items[i]
                  j == find(item.children, "job")
              IN j # 0 =>
                    /\ "job" \in DOMAIN xf.val[i]
                    /\ xf.val[i]["job"] = node2dict(item.children[j]).val
                    /\ DOMAIN xf.val[i] \subseteq
                          DOMAIN item.attrib
                              \cup {item.children[k].tag : k \in DOMAIN item.children}

C15_Witness ==
    /\ xf.op = "executions"
    /\ xf.exc = "none"
    /\ Len(xf.val) = 1
    /\ find(xf.pre.items[1].children, "job") # 0
    /\ xf.val[1]["job"]["name"] = "hello_world"
    /\ "name" \notin DOMAIN xf.val[1]

\* C16: (claim) the executions and projects transforms are pure: an
\* application leaves the document as it was, and two applications in a row
\* return equal values.
C16_TransformsArePure ==
    xf.op \in {"executions", "projects"} =>
        /\ etree = xf.pre
        /\ prev.op = xf.op => (prev.exc = xf.exc /\ prev.val = xf.val)

\* C18: child2dict and attr2dict leave the element as it was, and two calls in
\* a row on the same element return the same mapping.
C18_HelpersIdempotentNonMutating ==
    xf.op \in {"child2dict", "attr2dict"} =>
        /\ etree = xf.pre
        /\ (prev.op = xf.op /\ prev.arg = xf.arg) => prev.val = xf.val

C18_Witness ==
    /\ xf.op = "child2dict"
    /\ prev.op = "child2dict"
    /\ prev.arg = xf.arg
    /\ DOMAIN xf.val # {}
    /\ prev.val = xf.val

\* C19: node2dict(el) has the keys of attr2dict(el) and of child2dict(el); a
\* key that is a child tag has the child's text, any other key the attribute's
\* value.
C19_NodeIsUnionChildWins ==
    xf.op = "node2dict" =>
        LET el == xf.pre.items[xf.arg]
            a == attr2dict(el).val
            c == child2dict(el).val
        IN /\ DOMAIN xf.val = DOMAIN a \cup DOMAIN c
           /\ \A k \in DOMAIN c : xf.val[k] = c[k]
           /\ \A k \in DOMAIN a \ DOMAIN c : xf.val[k] = a[k]

C19_Witness ==
    /\ xf.op = "node2dict"
    /\ "name" \in DOMAIN xf.pre.items[xf.arg].attrib
    /\ xf.pre.items[xf.arg].attrib["name"] = "name_attribute"
    /\ xf.val["name"] = "hello_world"
    /\ xf.val["id"] = xf.pre.items[xf.arg].attrib["id"]

\* C24: (claim) allsuccessful in the result of jobs_delete is true when the
\* <deleteJobs> element has allsuccessful="true" and false when it has
\* allsuccessful="false".
C24_AllSuccessfulAsReported ==
    (xf.op = "jobs_delete" /\ xf.exc = "none")
        => (xf.val.allsuccessful <=> xf.pre.allsuccessful = "true")

\* ---------------------------------------------------------- node resources
\* A text is the sequence of its pieces; "<" is the piece that markup has to
\* escape and "," the separator of tags.
MaxTags == 2
MaxJobs == 2
MaxLimit == 2
MaxIds == 2
TagNames == {"hot", "cold"}
NoValue == [kind |-> "none"]

\* the RundeckNode objects a caller builds: name, hostname and username, the
\* optional description and osArch, tags as None, a list or a text, and
\* attributes as None or a dict (the set of its (name, value) items)
RundeckNodes ==
    {[kind |-> "RundeckNode",
      fields |-> ("name" :> <<"host1">> @@ "hostname" :> <<"hostname1">>
                  @@ "username" :> <<"user1">>) @@ d @@ o,
      tags |-> t,
      attributes |-> a] :
        d \in {NoAttrib, "description" :> << >>, "description" :> <<"I ", "<", "3 XML">>},
        o \in {NoAttrib, "osArch" :> <<"amd64">>},
        t \in {NoValue, [kind |-> "str", v |-> <<"hot", ",", "cold">>]}
                  \cup {[kind |-> "list", v |-> l] : l \in SeqsUpTo(TagNames, MaxTags)},
        a \in {NoValue,
               [kind |-> "dict", v |-> {}],
               [kind |-> "dict", v |-> {[name |-> <<"foo">>, value |-> <<"bar">>]}],
               [kind |-> "dict", v |-> {[name |-> <<"foo">>, value |-> <<"bar">>],
                                        [name |-> <<"rack">>, value |-> <<"a", "<", "b">>]}]}}

\* ','.join(tags)
RECURSIVE join(_)
join(tags) ==
    IF Len(tags) = 0 THEN << >>
    ELSE IF Len(tags) = 1 THEN <<tags[1]>>
    ELSE <<tags[1], ",">> \o join(Tail(tags))

\* xml.sax.saxutils.quoteattr, and what the XML parser makes of its result
quoteattr(v) == [i \in DOMAIN v |-> IF v[i] = "<" THEN "&lt;" ELSE v[i]]

unescape(v) == [i \in DOMAIN v |-> IF v[i] = "&lt;" THEN "<" ELSE v[i]]

\* RundeckNode.serialize: the attributes of the <node> element as written
\* between the quotes, and the <attribute> children with name and value as
\* written (format() without escaping)
serialize(node) ==
    LET data == IF node.tags.kind = "list" THEN node.fields @@ ("tags" :> join(node.tags.v))
                ELSE IF node.tags.kind = "str" THEN node.fields @@ ("tags" :> node.tags.v)
                ELSE node.fields
    IN [attrib |-> [k \in DOMAIN data |-> quoteattr(data[k])],
        attributes |-> IF node.attributes.kind = "dict" THEN node.attributes.v ELSE {}]

\* ElementTree.fromstring on a fragment: [exc, el]
fromstring(frag) ==
    IF \E c \in frag.attributes :
          \E i \in DOMAIN c.value : c.value[i] = "<"
    THEN [exc |-> "ParseError", el |-> NoNode]
    ELSE [exc |-> "none",
          el |-> [tag |-> "node", text |-> NoneText,
                  attrib |-> [k \in DOMAIN frag.attrib |-> unescape(frag.attrib[k])],
                  attributes |-> frag.attributes]]

\* transforms.project_resources for a document with this one <node>: the
\* mapping from the node's name to its attributes
project_resources(el) ==
    LET node_attr == attr2dict(el).val IN
    [n \in {node_attr["name"]} |-> node_attr]

\* RundeckNode.__init__(**node_attr): the declared keywords are kept, tags is
\* the text of the 'tags' attribute, attributes is kwargs.get('attributes', None)
NodeAttrKeys == {"name", "hostname", "username", "description", "osArch",
                 "osFamily", "osName", "editUrl", "remoteUrl"}

RundeckNode_init(node_attr) ==
    [kind |-> "RundeckNode",
     fields |-> [k \in DOMAIN node_attr \cap NodeAttrKeys |-> node_attr[k]],
     tags |-> IF "tags" \in DOMAIN node_attr
              THEN [kind |-> "str", v |-> node_attr["tags"]] ELSE NoValue,
     attributes |-> NoValue]

\* node.serialize()
Serialize ==
    /\ nstage = "node"
    /\ Len(frags) < 2
    /\ frags' = Append(frags, serialize(rnode))
    /\ nstage' = "xml"
    /\ UNCHANGED <<rnode, blockVars, apiVars, respVars, xmlVars, connVars, cliVars>>

\* the fragment comes back from the server and a node is taken from it
Extract ==
    /\ nstage = "xml"
    /\ Len(frags) = 1
    /\ LET parsed == fromstring(frags[1]) IN
          IF parsed.exc # "none"
          THEN nstage' = "ParseError" /\ rnode' = rnode
          ELSE LET nodes == project_resources(parsed.el) IN
               /\ nstage' = "node"
               /\ rnode' = RundeckNode_init(nodes[parsed.el.attrib["name"]])
    /\ UNCHANGED <<frags, blockVars, apiVars, respVars, xmlVars, connVars, cliVars>>

InitNode ==
    /\ BlockIdle
    /\ ApiIdle
    /\ RespIdle
    /\ ClientIdle
    /\ etree = NoTree
    /\ xf = NoXf
    /\ prev = NoXf
    /\ rnode \in RundeckNodes
    /\ frags = << >>
    /\ nstage = "node"

NextNode ==
    \/ Serialize
    \/ Extract

SpecNode == InitNode /\ [][NextNode]_vars

\* C20: (claim) the fragment serialized from the node extracted from a
\* serialized fragment has the attributes and the <attribute> children of that
\* fragment.
C20_NodeRoundTrip ==
    Len(frags) = 2 =>
        /\ frags[2].attrib = frags[1].attrib
        /\ frags[2].attributes = frags[1].attributes

\* ------------------------------------------------------------- connection

\* a keyword argument that is not passed, or is passed as None
None == "None"

\* the test before the HTTP session is made
NoCredentials(api_token, usr, pwd) == api_token = None /\ usr = None /\ pwd = None

\* the test after the POST of j_security_check
BadLogin(reply) ==
    \/ reply[1] = "/user/error"
    \/ reply[1] = "/user/login"
    \/ reply[2] # 200

\* RundeckConnectionTolerant.__init__: [outcome, auth, requests, reply]
RundeckConnectionTolerant_init(api_token, usr, pwd, version, reply) ==
    LET NoReply == <<"none", 0>> IN
    IF version < 1 \/ version > RUNDECK_API_VERSION
    THEN [outcome |-> "ApiVersionNotSupported", auth |-> "none", requests |-> << >>,
          reply |-> NoReply]
    ELSE IF NoCredentials(api_token, usr, pwd)
    THEN [outcome |-> "InvalidAuthentication", auth |-> "none", requests |-> << >>,
          reply |-> NoReply]
    ELSE IF api_token # None
    THEN [outcome |-> "constructed", auth |-> "X-Rundeck-Auth-Token", requests |-> << >>,
          reply |-> NoReply]
    ELSE IF usr # None /\ pwd # None
    THEN [outcome |-> IF BadLogin(reply) THEN "InvalidAuthentication" ELSE "constructed",
          auth |-> IF BadLogin(reply) THEN "none" ELSE "session",
          requests |-> <<[method |-> "POST", url |-> "j_security_check"]>>,
          reply |-> reply]
    ELSE [outcome |-> "constructed", auth |-> "none", requests |-> << >>,
          reply |-> NoReply]

\* a connection is constructed
Connect(api_token, usr, pwd, version, reply) ==
    /\ conn' = [api_token |-> api_token, usr |-> usr, pwd |-> pwd, api_version |-> version]
                @@ RundeckConnectionTolerant_init(api_token, usr, pwd, version, reply)
    /\ UNCHANGED <<blockVars, apiVars, respVars, xmlVars, nodeVars, cliVars>>

\* nothing constructed and nothing called yet
InitClient ==
    /\ BlockIdle
    /\ ApiIdle
    /\ RespIdle
    /\ ClientIdle
    /\ XmlIdle

\* api_version is a supported version, or one below or one above them; the
\* reply to the POST of j_security_check is the URL the session ends on after
\* redirects, and the status code
NextConn ==
    \E api_token \in {None, "token"}, usr \in {None, "admin"}, pwd \in {None, "secret"},
       version \in 0..(RUNDECK_API_VERSION + 1),
       reply \in {<<"/menu/home", 200>>, <<"/user/error", 200>>, <<"/user/login", 200>>,
                  <<"/menu/home", 500>>} :
        Connect(api_token, usr, pwd, version, reply)

SpecConn == InitClient /\ [][NextConn]_vars

\* C21: (claim) with a supported api_version, a construction succeeds only when
\* an api_token is supplied or both usr and pwd are; in every other case it
\* fails with InvalidAuthentication and no HTTP request has been made.
C21_NeedsTokenOrUsrAndPwd ==
    (conn.outcome \notin {"none", "ApiVersionNotSupported"}) =>
        LET enough == conn.api_token # None \/ (conn.usr # None /\ conn.pwd # None) IN
        /\ conn.outcome = "constructed" => enough
        /\ ~enough => (conn.outcome = "InvalidAuthentication" /\ conn.requests = << >>)

\* ----------------------------------------------------------------- client

JobIds == {"f114ab12", "0a6c3c9f"}

\* what the server lists for GET jobs: distinct jobs, in the server's order
JobListings ==
    {its \in SeqsUpTo({JobItemEl(id, FALSE) : id \in JobIds}, MaxJobs) :
        \A i, j \in DOMAIN its : i # j => its[i] # its[j]}

\* the replies that list jobs, and the reply that reports an error
JobsReplies ==
    {[attr |-> TRUE, success_el |-> Absent, error_el |-> Absent,
      tree |-> [kind |-> "jobs", container |-> TRUE, count |-> Len(its), items |-> its]] :
        its \in JobListings}
    \cup {[attr |-> FALSE, success_el |-> Absent, error_el |-> "No such job",
           tree |-> [kind |-> "jobs", container |-> FALSE, count |-> 0, items |-> << >>]]}

Min(a, b) == IF a <= b THEN a ELSE b

\* job_ids[:limit]; limit is << >> when the keyword is not passed (None) and
\* <<n>> when it is passed as n
slice(job_ids, limit) ==
    IF limit = << >> THEN job_ids ELSE SubSeq(job_ids, 1, Min(limit[1], Len(job_ids)))

\* Rundeck.jobs: api.jobs, whose _exec calls raise_for_error on the response
\* (outcome r), then raise_for_error once more
jobs_raise_for_error(resp, r) ==
    IF r.outcome # "returned" THEN r ELSE raise_for_error(resp, r.mcache, r.scache)

\* get_job_ids from `jobs = resp.as_dict` on, jobs being what memoize gave
job_ids(jobs, limit) ==
    IF jobs.exc # "none"
    THEN [outcome |-> jobs.exc, val |-> << >>, acache |-> jobs.cache]
    ELSE IF Len(jobs.val) > 0
    THEN [outcome |-> "returned",
          val |-> slice([i \in DOMAIN jobs.val |-> jobs.val[i]["id"]], limit),
          acache |-> jobs.cache]
    ELSE [outcome |-> "JobNotFound", val |-> << >>, acache |-> jobs.cache]

\* get_job_ids once self.jobs has ended as j
get_job_ids_of(resp, limit, j, acache) ==
    [mcache |-> j.mcache, scache |-> j.scache]
    @@ (IF j.outcome # "returned"
        THEN [outcome |-> j.outcome, val |-> << >>, acache |-> acache]
        ELSE job_ids(memoize(resp, acache,
                             LET x == jobs_transform(resp.doc.tree)
                             IN [exc |-> x.exc, val |-> x.val]),
                     limit))

\* Rundeck.get_job_ids on the response the server's reply is wrapped in:
\* [outcome, val, mcache, scache, acache]
get_job_ids(resp, limit, mcache, scache, acache) ==
    get_job_ids_of(resp, limit,
                   jobs_raise_for_error(resp, raise_for_error(resp, mcache, scache)),
                   acache)

\* get_job_id once get_job_ids has ended as job_list
first_job_id(job_list) ==
    IF job_list.outcome = "returned"
    THEN [job_list EXCEPT !.val = job_list.val[1]]
    ELSE [job_list EXCEPT !.val = "none"]

\* Rundeck.get_job_id
get_job_id(resp, mcache, scache, acache) ==
    first_job_id(get_job_ids(resp, <<1>>, mcache, scache, acache))

\* the call has ended as r on the response at address a
ClientJobCalled(op, a, doc, limit, r) ==
    /\ client_call' = [op |-> op, addr |-> a, http |-> "ok", doc |-> doc,
                       limit |-> limit, outcome |-> r.outcome, val |-> r.val]
    /\ success_cache' = r.scache
    /\ message_cache' = r.mcache
    /\ as_dict_memo' = r.acache

\* a call of get_job_ids or get_job_id: the request fails with an HTTP error,
\* or the reply is wrapped in a response allocated at address a
ClientJobCall(op, a, http, doc, limit) ==
    /\ IF http # "ok"
       THEN /\ client_call' = [op |-> op, http |-> http, outcome |-> "HTTPError"]
            /\ UNCHANGED <<success_cache, message_cache, as_dict_memo>>
       ELSE IF op = "get_job_ids"
       THEN ClientJobCalled(op, a, doc, limit,
                get_job_ids([addr |-> a, doc |-> doc], limit,
                            message_cache, success_cache, as_dict_memo))
       ELSE ClientJobCalled(op, a, doc, limit,
                get_job_id([addr |-> a, doc |-> doc],
                           message_cache, success_cache, as_dict_memo))
    /\ UNCHANGED <<response, rfe, got, call_out, blockVars, apiVars, xmlVars, nodeVars,
                   connVars>>

ClientGetJobIds(a, http, doc, limit) ==
    /\ Len(limit) <= 1
    /\ ClientJobCall("get_job_ids", a, http, doc, limit)

ClientGetJobId(a, http, doc) ==
    /\ doc \in JobsReplies
    /\ ClientJobCall("get_job_id", a, http, doc, <<1>>)

\* response.text of GET execution/[ID]/output?format=fmt: the entries written
\* in that format
output_text(fmt, entries) == <<fmt, entries>>

\* transforms.execution_output: json.loads(resp.text)
json_loads(text) == IF text[1] = "json" THEN <<"dict", text[2]>> ELSE <<"ValueError">>

\* RundeckResponse(response, ...): ElementTree.fromstring of the body
RundeckResponse_init(text) ==
    IF text[1] = "xml" THEN <<"RundeckResponse", text[2]>> ELSE <<"ParseError">>

\* Rundeck.execution_output: what is returned, and the format asked of the server
execution_output(raw, fmt, entries) ==
    LET defaults == fmt = None /\ raw = None
        fmt1 == IF defaults THEN "json" ELSE fmt
        raw1 == IF defaults THEN "False" ELSE raw
        fmt2 == IF fmt1 = None THEN "xml" ELSE fmt1
    IN IF raw1 = "True" \/ fmt2 = "text"
       THEN [returns |-> "text", format |-> fmt2, val |-> output_text(fmt2, entries)]
       ELSE IF fmt2 = "json"
       THEN [returns |-> "json", format |-> fmt2,
             val |-> json_loads(output_text(fmt2, entries))]
       ELSE [returns |-> "RundeckResponse", format |-> fmt2,
             val |-> RundeckResponse_init(output_text(fmt2, entries))]

ClientExecutionOutput(raw, fmt, entries) ==
    /\ client_call' = [op |-> "execution_output", raw |-> raw, fmt |-> fmt,
                       entries |-> entries]
                      @@ execution_output(raw, fmt, entries)
    /\ UNCHANGED <<as_dict_memo, blockVars, apiVars, respVars, xmlVars, nodeVars,
                   connVars>>

\* str.split(','), for a str whose pieces are ids or empty
RECURSIVE split(_)
split(str) ==
    IF Len(str) = 0 THEN <<"">>
    ELSE IF str[1] = "," THEN <<"">> \o split(Tail(str))
    ELSE IF Len(str) = 1 THEN <<str[1]>>
    ELSE <<str[1]>> \o split(SubSeq(str, 3, Len(str)))

\* Rundeck.delete_job, as the class binds the name: the definition at the end
\* of the class body, which calls self.execute_cmd, replaces the one that
\* precedes jobs_delete; Rundeck has no attribute execute_cmd
delete_job(id) == [exc |-> "AttributeError", val |-> "none", requests |-> << >>]

\* the loop of Rundeck.jobs_delete over the ids left
RECURSIVE jobs_delete_loop(_, _, _)
jobs_delete_loop(ids, results, requests) ==
    IF Len(ids) = 0
    THEN [outcome |-> "returned", val |-> results, requests |-> requests]
    ELSE LET d == delete_job(ids[1]) IN
         IF d.exc = "none"
         THEN jobs_delete_loop(Tail(ids), Append(results, d.val), requests \o d.requests)
         ELSE IF d.exc = "RundeckServerError"
         THEN [outcome |-> "AttributeError", val |-> results,
               requests |-> requests \o d.requests]
         ELSE [outcome |-> d.exc, val |-> results, requests |-> requests \o d.requests]

\* Rundeck.jobs_delete
jobs_delete(idlist) ==
    jobs_delete_loop(IF idlist[1] = "str" THEN split(idlist[2]) ELSE idlist[2], << >>, << >>)

ClientJobsDelete(idlist) ==
    /\ client_call' = [op |-> "jobs_delete", idlist |-> idlist] @@ jobs_delete(idlist)
    /\ UNCHANGED <<as_dict_memo, blockVars, apiVars, respVars, xmlVars, nodeVars,
                   connVars>>

NextClient ==
    \/ \E a \in {Fresh} \cup RespAddrs, http \in {"ok", "HTTPError"}, doc \in JobsReplies,
          limit \in {<< >>} \cup {<<n>> : n \in 0..MaxLimit} :
           ClientGetJobIds(a, http, doc, limit)
    \/ \E a \in {Fresh} \cup RespAddrs, http \in {"ok", "HTTPError"}, doc \in JobsReplies :
           ClientGetJobId(a, http, doc)
    \* raw and fmt not passed (None) or passed; the log entries of the execution
    \/ \E raw \in {None, "True", "False"}, fmt \in {None, "json", "text", "xml"},
          entries \in {<< >>, <<"hello world">>} :
           ClientExecutionOutput(raw, fmt, entries)
    \* idlist is a list of ids, or the ids in one str with commas
    \/ \E ids \in SeqsUpTo(JobIds, MaxIds), form \in {"list", "str"} :
           ClientJobsDelete(IF form = "str" THEN <<form, join(ids)>> ELSE <<form, ids>>)

SpecClient == InitClient /\ [][NextClient]_vars

\* the ids of the jobs a reply lists, in the reply's order
ListedIds(doc) == [i \in DOMAIN doc.tree.items |-> doc.tree.items[i].attrib["id"]]

\* what the claim says of a call whose reply lists jobs
C23_AsListed ==
    LET ids == ListedIds(client_call.doc)
        m == Len(ids)
        limit == client_call.limit
    IN IF m = 0 THEN client_call.outcome = "JobNotFound"
       ELSE /\ client_call.outcome = "returned"
            /\ client_call.val =
                   IF client_call.op = "get_job_id" THEN ids[1]
                   ELSE SubSeq(ids, 1, IF limit = << >> THEN m ELSE Min(limit[1], m))

\* C23: (claim) get_job_ids with limit n >= 1 returns the ids of the first
\* min(n, m) of the m jobs the server lists, in server order, all m ids when
\* limit is omitted, and raises JobNotFound exactly when m = 0; get_job_id
\* returns the first listed id or raises JobNotFound.
C23_FirstIdsInServerOrder ==
    (/\ client_call.op \in {"get_job_ids", "get_job_id"}
     /\ client_call.http = "ok"
     /\ client_call.doc.attr
     /\ client_call.limit # << >> => client_call.limit[1] >= 1)
        => C23_AsListed

\* the same, for a response at an address no response has had before
C23_OnFreshAddress ==
    (/\ client_call.op \in {"get_job_ids", "get_job_id"}
     /\ client_call.http = "ok"
     /\ client_call.doc.attr
     /\ client_call.limit # << >> => client_call.limit[1] >= 1
     /\ client_call.addr = Fresh)
        => C23_AsListed

\* C25: (claim) execution_output with raw=False and no fmt returns what a call
\* with neither keyword returns, the JSON-decoded output; with raw=True or
\* fmt='text' it returns the unmodified response text.
C25_DocumentedDefaults ==
    client_call.op = "execution_output" =>
        /\ (client_call.fmt = None /\ client_call.raw \in {None, "False"}) =>
               /\ client_call.returns = "json"
               /\ client_call.val = json_loads(output_text("json", client_call.entries))
        /\ (client_call.raw = "True" \/ client_call.fmt = "text") =>
               /\ client_call.returns = "text"
               /\ client_call.val = output_text(client_call.format, client_call.entries)

====
